---- MODULE Spec2Model ----
(***************************************************************************)
(* Model of the `humanise` crate: humanise_list and plural_suffix from     *)
(* src/lib.rs, humanise_duration_ms and humanise_duration from             *)
(* src/durations.rs.                                                       *)
(*                                                                         *)
(* A Rust String is modelled as a sequence of one-character strings, so    *)
(* that formatting, concatenation and the integer-to-text conversion are   *)
(* computed character by character.                                        *)
(***************************************************************************)
EXTENDS Integers, Sequences, FiniteSets, TLC

VARIABLES
    pc,            \* position of the running call: "idle", "start", "push_*", "join", "done"
    entry,         \* the public function that was called
    duration,      \* argument of humanise_duration: a std::time::Duration
    milliseconds,  \* argument of humanise_duration_ms
    verbose,       \* argument of humanise_duration_ms / humanise_duration
    days, hours, minutes, seconds, seconds_mod,   \* the locals of lines 48-63
    vec,           \* the phrase list of line 65
    list,          \* argument of humanise_list (called directly)
    count, word, opposite,   \* arguments of plural_suffix (called directly)
    result         \* the returned String

vars == <<pc, entry, duration, milliseconds, verbose, days, hours, minutes,
          seconds, seconds_mod, vec, list, count, word, opposite, result>>

(***************************************************************************)
(* Bounds of the explored inputs.                                          *)
(***************************************************************************)
MaxDays == 3
MaxSmall == 1100
MaxListLen == 4
MaxCount == 3

(***************************************************************************)
(* durations.rs, lines 6-9.                                                *)
(***************************************************************************)
SECOND == 1000
MINUTE == SECOND * 60
HOUR == MINUTE * 60
DAY == HOUR * 24

(***************************************************************************)
(* Text conversion of an unsigned integer (the "{}" of format! applied to  *)
(* a u128): decimal digits, most significant first, no padding.            *)
(***************************************************************************)
Digit(d) == <<"0", "1", "2", "3", "4", "5", "6", "7", "8", "9">>[d + 1]

RECURSIVE to_string(_)
to_string(n) ==
    IF n < 10 THEN <<Digit(n)>>
    ELSE to_string(n \div 10) \o <<Digit(n % 10)>>

(***************************************************************************)
(* lib.rs, plural_suffix (lines 93-112).                                   *)
(***************************************************************************)
plural_suffix_le1(c, w, opp) ==
    LET suffix == IF c <= 1
                  THEN (IF opp THEN <<"s">> ELSE <<>>)
                  ELSE (IF opp THEN <<>> ELSE <<"s">>)
    IN  w \o suffix

plural_suffix(c, w, opp) ==
    LET suffix == IF c = 1
                  THEN (IF opp THEN <<"s">> ELSE <<>>)
                  ELSE (IF opp THEN <<>> ELSE <<"s">>)
    IN  w \o suffix

(***************************************************************************)
(* lib.rs, humanise_list (lines 40-61).  Indices i are 0-based as in the   *)
(* source's enumerate(); list[i + 1] is the element at index i.            *)
(***************************************************************************)
list_prefix_no_serial(i, len) ==
    IF i = 0 THEN <<>>
    ELSE IF i = len - 1 THEN <<" ", "a", "n", "d", " ">>
    ELSE <<",", " ">>

list_prefix(i, len) ==
    IF i = 0 THEN <<>>
    ELSE IF i = len - 1 THEN <<",", " ", "a", "n", "d", " ">>
    ELSE <<",", " ">>

\* the accumulator `str` after the loop has processed indices 0 .. n-1
RECURSIVE list_loop(_, _)
list_loop(l, n) ==
    IF n = 0 THEN <<>>
    ELSE list_loop(l, n - 1) \o list_prefix(n - 1, Len(l)) \o l[n]

humanise_list(l) ==
    CASE Len(l) = 0 -> <<>>
      [] Len(l) = 1 -> l[1]
      [] Len(l) = 2 -> l[1] \o <<" ", "a", "n", "d", " ">> \o l[Len(l)]
      [] OTHER -> list_loop(l, Len(l))

(***************************************************************************)
(* durations.rs, humanise_duration_ms.                                     *)
(***************************************************************************)
\* lines 41-47: the early return for a zero input
zero_result_same(v) == <<"0", " ", "s", "e", "c", "s">>

zero_result(v) ==
    IF v THEN <<"0", " ", "s", "e", "c", "o", "n", "d", "s">>
    ELSE <<"0", " ", "s", "e", "c", "s">>

\* lines 48-63: the successive remainder / division steps
breakdown_no_carry(ms) ==
    LET days_mod == ms % DAY
        d == (ms - days_mod) \div DAY
        hours_mod == ms % HOUR
        h == (ms - hours_mod) \div HOUR
        remaining_millis_2 == hours_mod
        minutes_mod == remaining_millis_2 % MINUTE
        mi == (remaining_millis_2 - minutes_mod) \div MINUTE
        remaining_millis_3 == minutes_mod
        s_mod == remaining_millis_3 % SECOND
        s == (remaining_millis_3 - s_mod) \div SECOND
    IN  [days |-> d, hours |-> h, minutes |-> mi, seconds |-> s,
         seconds_mod |-> s_mod,
         subtrahends_ok |-> days_mod <= ms /\ hours_mod <= ms
                            /\ minutes_mod <= remaining_millis_2
                            /\ s_mod <= remaining_millis_3]

breakdown_drop_ms(ms) ==
    LET days_mod == ms % DAY
        d == (ms - days_mod) \div DAY
        remaining_millis_1 == days_mod
        hours_mod == remaining_millis_1 % HOUR
        h == (remaining_millis_1 - hours_mod) \div HOUR
        remaining_millis_2 == hours_mod
        minutes_mod == remaining_millis_2 % MINUTE
        mi == (remaining_millis_2 - minutes_mod) \div MINUTE
        remaining_millis_3 == minutes_mod
        s_mod == remaining_millis_3 % SECOND
        s == (remaining_millis_3 - s_mod) \div SECOND
    IN  [days |-> d, hours |-> h, minutes |-> mi, seconds |-> s,
         seconds_mod |-> 0,
         subtrahends_ok |-> days_mod <= ms /\ hours_mod <= remaining_millis_1
                            /\ minutes_mod <= remaining_millis_2
                            /\ s_mod <= remaining_millis_3]

breakdown(ms) ==
    LET days_mod == ms % DAY
        d == (ms - days_mod) \div DAY
        remaining_millis_1 == days_mod
        hours_mod == remaining_millis_1 % HOUR
        h == (remaining_millis_1 - hours_mod) \div HOUR
        remaining_millis_2 == hours_mod
        minutes_mod == remaining_millis_2 % MINUTE
        mi == (remaining_millis_2 - minutes_mod) \div MINUTE
        remaining_millis_3 == minutes_mod
        s_mod == remaining_millis_3 % SECOND
        s == (remaining_millis_3 - s_mod) \div SECOND
    IN  [days |-> d, hours |-> h, minutes |-> mi, seconds |-> s,
         seconds_mod |-> s_mod,
         \* every u128 subtraction has a subtrahend no larger than its minuend
         subtrahends_ok |-> days_mod <= ms /\ hours_mod <= remaining_millis_1
                            /\ minutes_mod <= remaining_millis_2
                            /\ s_mod <= remaining_millis_3]

\* lines 66-68
push_days_zero_too(v, d) ==
    Append(v, to_string(d) \o <<" ">> \o plural_suffix(d, <<"d", "a", "y">>, FALSE))

push_days(v, d) ==
    IF d > 0
    THEN Append(v, to_string(d) \o <<" ">> \o plural_suffix(d, <<"d", "a", "y">>, FALSE))
    ELSE v

\* lines 69-71; `verbose` is in scope at this statement and is not used by it
push_hours_abbrev(v, h, verb) ==
    IF h > 0
    THEN Append(v, to_string(h) \o <<" ">>
                   \o plural_suffix(h, IF verb THEN <<"h", "o", "u", "r">>
                                       ELSE <<"h", "r">>, FALSE))
    ELSE v

push_hours(v, h, verb) ==
    IF h > 0
    THEN Append(v, to_string(h) \o <<" ">> \o plural_suffix(h, <<"h", "o", "u", "r">>, FALSE))
    ELSE v

\* lines 72-78
push_minutes_fixed(v, mi, verb) ==
    IF mi > 0
    THEN Append(v, to_string(mi) \o <<" ">>
                   \o (IF verb THEN plural_suffix(mi, <<"m", "i", "n", "u", "t", "e">>, FALSE)
                       ELSE <<"m", "i", "n">>))
    ELSE v

push_minutes(v, mi, verb) ==
    IF mi > 0
    THEN Append(v, to_string(mi) \o <<" ">>
                   \o plural_suffix(mi, IF verb THEN <<"m", "i", "n", "u", "t", "e">>
                                        ELSE <<"m", "i", "n", " ">>, FALSE))
    ELSE v

\* lines 79-85
push_seconds(v, s, verb) ==
    IF s > 0
    THEN Append(v, to_string(s) \o <<" ">>
                   \o plural_suffix(s, IF verb THEN <<"s", "e", "c", "o", "n", "d">>
                                       ELSE <<"s", "e", "c">>, FALSE))
    ELSE v

\* lines 86-96
push_milliseconds_gt1(v, ms, verb) ==
    IF ms > 1
    THEN Append(v, to_string(ms) \o <<" ">>
                   \o (IF verb
                       THEN plural_suffix(ms, <<"m", "i", "l", "l", "i", "s", "e", "c", "o", "n", "d">>, FALSE)
                       ELSE <<"m", "s">>))
    ELSE v

push_milliseconds(v, ms, verb) ==
    IF ms > 0
    THEN Append(v, to_string(ms) \o <<" ">>
                   \o (IF verb
                       THEN plural_suffix(ms, <<"m", "i", "l", "l", "i", "s", "e", "c", "o", "n", "d">>, FALSE)
                       ELSE <<"m", "s">>))
    ELSE v

\* the whole function, lines 40-98, as one expression
humanise_duration_ms(ms, verb) ==
    IF ms = 0 THEN zero_result(verb)
    ELSE LET b == breakdown(ms)
             v1 == push_days(<<>>, b.days)
             v2 == push_hours(v1, b.hours, verb)
             v3 == push_minutes(v2, b.minutes, verb)
             v4 == push_seconds(v3, b.seconds, verb)
             v5 == push_milliseconds(v4, b.seconds_mod, verb)
         IN  humanise_list(v5)

(***************************************************************************)
(* std::time::Duration as used by humanise_duration (line 104) and by the  *)
(* tests' duration() helper (lines 120-122): whole seconds plus            *)
(* nanoseconds below one second.                                           *)
(***************************************************************************)
from_millis(ms) == [secs |-> ms \div 1000, nanos |-> (ms % 1000) * 1000000]

as_millis_secs_only(d) == d.secs * 1000

as_millis(d) == d.secs * 1000 + d.nanos \div 1000000

(***************************************************************************)
(* Inputs.                                                                 *)
(***************************************************************************)
MsInputs ==
    (0 .. MaxSmall)
    \cup {n * SECOND : n \in 1 .. 59}
    \cup {n * MINUTE : n \in 1 .. 59}
    \cup {n * HOUR : n \in 1 .. 23}
    \cup {n * DAY : n \in 1 .. MaxDays}
    \cup {d * DAY + h * HOUR + mi * MINUTE + s * SECOND + x :
            d \in 0 .. MaxDays, h \in {0, 1, 2, 23}, mi \in {0, 1, 2, 59},
            s \in {0, 1, 2, 59}, x \in {0, 1, 2, 345, 999}}

\* durations of a whole number of milliseconds, and the same plus a
\* sub-millisecond rest
DurationInputs ==
    {from_millis(m) : m \in MsInputs}
    \cup {[secs |-> m \div 1000, nanos |-> (m % 1000) * 1000000 + 999999] :
            m \in 0 .. 3}

Items == {<<"a">>, <<"b", "c">>, <<",", " ">>}

Lists == UNION {[1 .. n -> Items] : n \in 0 .. MaxListLen}

Words == {<<"n", "a", "m", "e">>, <<"m", "a", "k", "e">>, <<"m", "i", "n", " ">>, <<>>}

NoDuration == [secs |-> 0, nanos |-> 0]

(***************************************************************************)
(* The state machine: a caller invokes one public function at a time.      *)
(***************************************************************************)
Init ==
    /\ pc = "idle"
    /\ entry = "none"
    /\ duration = NoDuration
    /\ milliseconds = 0
    /\ verbose = FALSE
    /\ days = 0 /\ hours = 0 /\ minutes = 0 /\ seconds = 0 /\ seconds_mod = 0
    /\ vec = <<>>
    /\ list = <<>>
    /\ count = 0 /\ word = <<>> /\ opposite = FALSE
    /\ result = <<>>

\* durations.rs line 40: humanise_duration_ms(milliseconds, verbose) is entered
CallHumaniseDurationMs ==
    /\ pc = "idle"
    /\ \E m \in MsInputs, v \in BOOLEAN :
         /\ milliseconds' = m
         /\ verbose' = v
    /\ entry' = "humanise_duration_ms"
    /\ pc' = "start"
    /\ UNCHANGED <<duration, days, hours, minutes, seconds, seconds_mod, vec,
                   list, count, word, opposite, result>>

\* durations.rs lines 103-105: humanise_duration converts and delegates
CallHumaniseDuration ==
    /\ pc = "idle"
    /\ \E d \in DurationInputs, v \in BOOLEAN :
         /\ duration' = d
         /\ milliseconds' = as_millis(d)
         /\ verbose' = v
    /\ entry' = "humanise_duration"
    /\ pc' = "start"
    /\ UNCHANGED <<days, hours, minutes, seconds, seconds_mod, vec,
                   list, count, word, opposite, result>>

\* lines 41-47
ReturnZero ==
    /\ pc = "start"
    /\ milliseconds = 0
    /\ result' = zero_result(verbose)
    /\ pc' = "done"
    /\ UNCHANGED <<entry, duration, milliseconds, verbose, days, hours, minutes,
                   seconds, seconds_mod, vec, list, count, word, opposite>>

\* lines 48-65
Decompose ==
    /\ pc = "start"
    /\ milliseconds # 0
    /\ LET b == breakdown(milliseconds)
       IN  /\ days' = b.days
           /\ hours' = b.hours
           /\ minutes' = b.minutes
           /\ seconds' = b.seconds
           /\ seconds_mod' = b.seconds_mod
    /\ vec' = <<>>
    /\ pc' = "push_days"
    /\ UNCHANGED <<entry, duration, milliseconds, verbose, list, count, word,
                   opposite, result>>

PushDays ==
    /\ pc = "push_days"
    /\ vec' = push_days(vec, days)
    /\ pc' = "push_hours"
    /\ UNCHANGED <<entry, duration, milliseconds, verbose, days, hours, minutes,
                   seconds, seconds_mod, list, count, word, opposite, result>>

PushHours ==
    /\ pc = "push_hours"
    /\ vec' = push_hours(vec, hours, verbose)
    /\ pc' = "push_minutes"
    /\ UNCHANGED <<entry, duration, milliseconds, verbose, days, hours, minutes,
                   seconds, seconds_mod, list, count, word, opposite, result>>

PushMinutes ==
    /\ pc = "push_minutes"
    /\ vec' = push_minutes(vec, minutes, verbose)
    /\ pc' = "push_seconds"
    /\ UNCHANGED <<entry, duration, milliseconds, verbose, days, hours, minutes,
                   seconds, seconds_mod, list, count, word, opposite, result>>

PushSeconds ==
    /\ pc = "push_seconds"
    /\ vec' = push_seconds(vec, seconds, verbose)
    /\ pc' = "push_milliseconds"
    /\ UNCHANGED <<entry, duration, milliseconds, verbose, days, hours, minutes,
                   seconds, seconds_mod, list, count, word, opposite, result>>

PushMilliseconds ==
    /\ pc = "push_milliseconds"
    /\ vec' = push_milliseconds(vec, seconds_mod, verbose)
    /\ pc' = "join"
    /\ UNCHANGED <<entry, duration, milliseconds, verbose, days, hours, minutes,
                   seconds, seconds_mod, list, count, word, opposite, result>>

\* line 97
Join ==
    /\ pc = "join"
    /\ result' = humanise_list(vec)
    /\ pc' = "done"
    /\ UNCHANGED <<entry, duration, milliseconds, verbose, days, hours, minutes,
                   seconds, seconds_mod, vec, list, count, word, opposite>>

\* lib.rs lines 40-61, called directly
CallHumaniseList ==
    /\ pc = "idle"
    /\ \E l \in Lists :
         /\ list' = l
         /\ result' = humanise_list(l)
    /\ entry' = "humanise_list"
    /\ pc' = "done"
    /\ UNCHANGED <<duration, milliseconds, verbose, days, hours, minutes,
                   seconds, seconds_mod, vec, count, word, opposite>>

\* lib.rs lines 93-112, called directly
CallPluralSuffix ==
    /\ pc = "idle"
    /\ \E c \in 0 .. MaxCount, w \in Words, o \in BOOLEAN :
         /\ count' = c
         /\ word' = w
         /\ opposite' = o
         /\ result' = plural_suffix(c, w, o)
    /\ entry' = "plural_suffix"
    /\ pc' = "done"
    /\ UNCHANGED <<duration, milliseconds, verbose, days, hours, minutes,
                   seconds, seconds_mod, vec, list>>

\* the call has returned; nothing outlives it
Return ==
    /\ pc = "done"
    /\ pc' = "idle"
    /\ entry' = "none"
    /\ duration' = NoDuration
    /\ milliseconds' = 0
    /\ verbose' = FALSE
    /\ days' = 0 /\ hours' = 0 /\ minutes' = 0 /\ seconds' = 0 /\ seconds_mod' = 0
    /\ vec' = <<>>
    /\ list' = <<>>
    /\ count' = 0 /\ word' = <<>> /\ opposite' = FALSE
    /\ result' = <<>>

Next ==
    \/ CallHumaniseDurationMs
    \/ CallHumaniseDuration
    \/ ReturnZero
    \/ Decompose
    \/ PushDays
    \/ PushHours
    \/ PushMinutes
    \/ PushSeconds
    \/ PushMilliseconds
    \/ Join
    \/ CallHumaniseList
    \/ CallPluralSuffix
    \/ Return

Spec == Init /\ [][Next]_vars

TypeOK ==
    /\ pc \in {"idle", "start", "push_days", "push_hours", "push_minutes",
               "push_seconds", "push_milliseconds", "join", "done"}
    /\ entry \in {"none", "humanise_duration_ms", "humanise_duration",
                  "humanise_list", "plural_suffix"}
    /\ milliseconds \in Nat
    /\ verbose \in BOOLEAN

(***************************************************************************)
(* Vocabulary of the properties.                                           *)
(***************************************************************************)
DurationEntries == {"humanise_duration_ms", "humanise_duration"}

\* a duration call that has returned
DurDone == pc = "done" /\ entry \in DurationEntries

\* a duration call that has executed lines 48-63
Decomposed ==
    /\ entry \in DurationEntries
    /\ pc \notin {"idle", "start"}
    /\ milliseconds # 0

Last(s) == s[Len(s)]

PluralS(n) == IF n = 1 THEN <<>> ELSE <<"s">>

DigitChars == {"0", "1", "2", "3", "4", "5", "6", "7", "8", "9"}

DigitValue(ch) == CHOOSE d \in 0 .. 9 : Digit(d) = ch

\* number of leading decimal digits of a phrase
RECURSIVE LeadingDigits(_)
LeadingDigits(p) ==
    IF p = <<>> \/ Head(p) \notin DigitChars THEN 0
    ELSE 1 + LeadingDigits(Tail(p))

\* value of the first k characters read as a decimal number
RECURSIVE DecimalValue(_, _)
DecimalValue(p, k) ==
    IF k = 0 THEN 0
    ELSE 10 * DecimalValue(p, k - 1) + DigitValue(p[k])

PhraseCount(p) == DecimalValue(p, LeadingDigits(p))

\* what follows the count and the single space after it
PhraseWord(p) == SubSeq(p, LeadingDigits(p) + 2, Len(p))

WellFormedPhrase(p) ==
    /\ LeadingDigits(p) >= 1
    /\ Len(p) > LeadingDigits(p) + 1
    /\ p[LeadingDigits(p) + 1] = " "
    /\ p[1] # "0"

UnitOfWord(w) ==
    CASE w \in {<<"d", "a", "y">>, <<"d", "a", "y", "s">>} -> "days"
      [] w \in {<<"h", "o", "u", "r">>, <<"h", "o", "u", "r", "s">>} -> "hours"
      [] w \in {<<"m", "i", "n", "u", "t", "e">>, <<"m", "i", "n", "u", "t", "e", "s">>,
                <<"m", "i", "n", " ">>, <<"m", "i", "n", " ", "s">>} -> "minutes"
      [] w \in {<<"s", "e", "c", "o", "n", "d">>, <<"s", "e", "c", "o", "n", "d", "s">>,
                <<"s", "e", "c">>, <<"s", "e", "c", "s">>} -> "seconds"
      [] w \in {<<"m", "i", "l", "l", "i", "s", "e", "c", "o", "n", "d">>,
                <<"m", "i", "l", "l", "i", "s", "e", "c", "o", "n", "d", "s">>,
                <<"m", "s">>} -> "milliseconds"
      [] OTHER -> "unknown"

NonZero(u) == u.n > 0

\* the non-zero units of m, largest first, from m alone
ExpectedUnits(m) ==
    SelectSeq(<<[u |-> "days", n |-> m \div 86400000],
                [u |-> "hours", n |-> (m \div 3600000) % 24],
                [u |-> "minutes", n |-> (m \div 60000) % 60],
                [u |-> "seconds", n |-> (m \div 1000) % 60],
                [u |-> "milliseconds", n |-> m % 1000]>>, NonZero)

\* C1: once the remainder/division steps have run, the five components
\* recombine to exactly the millisecond count that was passed in.
C1_Reconstruct ==
    Decomposed =>
        days * 86400000 + hours * 3600000 + minutes * 60000
            + seconds * 1000 + seconds_mod = milliseconds

C1_Witness ==
    /\ Decomposed
    /\ days > 1 /\ hours > 0 /\ minutes > 0 /\ seconds > 0 /\ seconds_mod > 0

\* C2: hours < 24, minutes < 60, seconds < 60, milliseconds < 1000, every
\* component is non-negative and no subtraction of the decomposition has a
\* subtrahend larger than its minuend.
C2_Ranges ==
    Decomposed =>
        /\ days >= 0
        /\ hours >= 0 /\ hours < 24
        /\ minutes >= 0 /\ minutes < 60
        /\ seconds >= 0 /\ seconds < 60
        /\ seconds_mod >= 0 /\ seconds_mod < 1000
        /\ breakdown(milliseconds).subtrahends_ok

C2_Witness ==
    /\ Decomposed
    /\ days >= 2 /\ hours = 23 /\ minutes = 59 /\ seconds = 59 /\ seconds_mod = 999

\* C3: a zero input returns exactly "0 seconds" (verbose) or "0 secs"
\* (non-verbose) with no phrase list built, and no positive input returns
\* either of the two strings.
C3_Zero ==
    DurDone =>
        /\ milliseconds = 0 =>
             /\ result = (IF verbose
                          THEN <<"0", " ", "s", "e", "c", "o", "n", "d", "s">>
                          ELSE <<"0", " ", "s", "e", "c", "s">>)
             /\ vec = <<>>
        /\ milliseconds > 0 =>
             result \notin {<<"0", " ", "s", "e", "c", "o", "n", "d", "s">>,
                            <<"0", " ", "s", "e", "c", "s">>}

C3_Witness == DurDone /\ milliseconds = 0 /\ verbose

\* C4: the phrase list handed to humanise_list holds exactly one phrase per
\* non-zero unit, in the order days, hours, minutes, seconds, milliseconds,
\* and none for a zero unit; 60000 gives the single phrase "1 minute" and
\* DAY + MINUTE gives "1 day and 1 minute".
C4_Phrases ==
    /\ (pc = "join" /\ entry \in DurationEntries) =>
         LET exp == ExpectedUnits(milliseconds)
         IN  /\ Len(vec) = Len(exp)
             /\ \A i \in 1 .. Len(vec) :
                  /\ WellFormedPhrase(vec[i])
                  /\ PhraseCount(vec[i]) = exp[i].n
                  /\ UnitOfWord(PhraseWord(vec[i])) = exp[i].u
    /\ (pc = "join" /\ milliseconds = 60000 /\ verbose) =>
         vec = << <<"1", " ", "m", "i", "n", "u", "t", "e">> >>
    /\ (DurDone /\ milliseconds = 86460000 /\ verbose) =>
         result = <<"1", " ", "d", "a", "y", " ", "a", "n", "d", " ",
                    "1", " ", "m", "i", "n", "u", "t", "e">>

C4_Witness ==
    /\ pc = "join"
    /\ days > 0 /\ hours = 0 /\ minutes > 0 /\ seconds = 0 /\ seconds_mod > 0
    /\ Len(vec) = 3

\* what C5 expects for n units named noun
SingleUnitText(n, noun) == to_string(n) \o <<" ">> \o noun \o PluralS(n)

\* the whole milliseconds of a Duration, when it has no sub-millisecond part
WholeMillis(d) == d.secs * 1000 + d.nanos \div 1000000

\* C5: verbose humanise_duration of n units of a single kind is "1 N" for
\* n = 1 and "<n> Ns" for n >= 2.
C5_SingleUnits ==
    (pc = "done" /\ entry = "humanise_duration" /\ verbose
       /\ duration.nanos % 1000000 = 0 /\ WholeMillis(duration) > 0) =>
        LET t == WholeMillis(duration)
        IN  /\ t % 86400000 = 0 =>
                 result = SingleUnitText(t \div 86400000, <<"d", "a", "y">>)
            /\ (t % 3600000 = 0 /\ t \div 3600000 <= 23) =>
                 result = SingleUnitText(t \div 3600000, <<"h", "o", "u", "r">>)
            /\ (t % 60000 = 0 /\ t \div 60000 <= 59) =>
                 result = SingleUnitText(t \div 60000, <<"m", "i", "n", "u", "t", "e">>)
            /\ (t % 1000 = 0 /\ t \div 1000 <= 59) =>
                 result = SingleUnitText(t \div 1000, <<"s", "e", "c", "o", "n", "d">>)
            /\ t <= 999 =>
                 result = SingleUnitText(t, <<"m", "i", "l", "l", "i", "s", "e", "c", "o", "n", "d">>)

C5_Witness ==
    /\ pc = "done" /\ entry = "humanise_duration" /\ verbose
    /\ duration = [secs |-> 0, nanos |-> 999000000]
    /\ result = <<"9", "9", "9", " ", "m", "i", "l", "l", "i", "s", "e", "c", "o", "n", "d", "s">>

\* the state right after the minutes statement of a non-verbose call that
\* has a non-zero minutes count
MinutesPushedShort ==
    /\ pc = "push_seconds"
    /\ entry \in DurationEntries
    /\ ~verbose
    /\ minutes \in 1 .. 59

SepBefore(i, n) ==
    IF i = n THEN <<",", " ", "a", "n", "d", " ">> ELSE <<",", " ">>

\* position in the output at which element i starts
RECURSIVE StartOf(_, _)
StartOf(l, i) ==
    IF i = 1 THEN 1
    ELSE StartOf(l, i - 1) + Len(l[i - 1]) + Len(SepBefore(i, Len(l)))

Joined(l, r) ==
    CASE Len(l) = 0 -> r = <<>>
      [] Len(l) = 1 -> r = l[1]
      [] Len(l) = 2 -> r = l[1] \o <<" ", "a", "n", "d", " ">> \o l[2]
      [] OTHER ->
           /\ Len(r) = StartOf(l, Len(l)) + Len(l[Len(l)]) - 1
           /\ \A i \in 1 .. Len(l) :
                SubSeq(r, StartOf(l, i), StartOf(l, i) + Len(l[i]) - 1) = l[i]
           /\ \A i \in 2 .. Len(l) :
                SubSeq(r, StartOf(l, i) - Len(SepBefore(i, Len(l))), StartOf(l, i) - 1)
                    = SepBefore(i, Len(l))

\* C7: humanise_list gives "" for no element, the element for one, "A and B"
\* for two, and for three or more the elements in order, ", " between
\* neighbours and ", and " before the last, nothing before the first or
\* after the last element.
C7_List ==
    /\ (pc = "done" /\ entry = "humanise_list") => Joined(list, result)
    /\ (DurDone /\ milliseconds # 0) => Joined(vec, result)
    /\ (pc = "done" /\ entry = "humanise_list"
          /\ list = << <<"a">>, <<"b", "c">>, <<"a">> >>) =>
         result = <<"a", ",", " ", "b", "c", ",", " ", "a", "n", "d", " ", "a">>

C7_Witness ==
    /\ pc = "done" /\ entry = "humanise_list"
    /\ Len(list) >= 4
    /\ list[1] # list[2]

\* C8: with opposite = false the word is unchanged for count 1 and gets "s"
\* for every other count; with opposite = true it gets "s" for count 1 and
\* is unchanged otherwise; the two modes differ by exactly the trailing "s".
C8_Plural ==
    (pc = "done" /\ entry = "plural_suffix") =>
        /\ ~opposite => result = (IF count = 1 THEN word ELSE Append(word, "s"))
        /\ opposite => result = (IF count = 1 THEN Append(word, "s") ELSE word)
        /\ LET other == plural_suffix(count, word, ~opposite)
           IN  IF (count = 1) = opposite
               THEN result = Append(other, "s")
               ELSE other = Append(result, "s")

C8_Witness ==
    /\ pc = "done" /\ entry = "plural_suffix"
    /\ count = 0 /\ opposite
    /\ word = <<"m", "a", "k", "e">>
    /\ result = <<"m", "a", "k", "e">>

\* C9: the phrase list handed to humanise_list is never empty, and every
\* duration call returns a non-empty string.
C9_NonEmpty ==
    /\ (pc = "join" /\ entry \in DurationEntries) => vec # <<>>
    /\ DurDone => result # <<>>

C9_Witness ==
    /\ pc = "join" /\ entry \in DurationEntries
    /\ milliseconds = 1
    /\ Len(vec) = 1

\* the text C10 expects for d days and h hours, not both zero
DayHourText(d, h) ==
    LET dayP == to_string(d) \o <<" ", "d", "a", "y">> \o PluralS(d)
        hourP == to_string(h) \o <<" ", "h", "o", "u", "r">> \o PluralS(h)
    IN  IF d > 0 /\ h > 0 THEN dayP \o <<" ", "a", "n", "d", " ">> \o hourP
        ELSE IF d > 0 THEN dayP ELSE hourP

\* C10: for a positive whole number of hours the returned string is the same
\* for both values of verbose, and spells the units day(s) and hour(s).
C10_VerboseIrrelevant ==
    (DurDone /\ milliseconds > 0 /\ milliseconds % 3600000 = 0) =>
        /\ result = humanise_duration_ms(milliseconds, ~verbose)
        /\ result = DayHourText(milliseconds \div 86400000,
                                (milliseconds \div 3600000) % 24)

C10_Witness ==
    /\ DurDone /\ ~verbose
    /\ milliseconds = 2 * 86400000 + 23 * 3600000
    /\ result = <<"2", " ", "d", "a", "y", "s", " ", "a", "n", "d", " ",
                  "2", "3", " ", "h", "o", "u", "r", "s">>

====
